---- MODULE Spec2Model ----
(***************************************************************************)
(* horizon_contrib/tables/base.py: the model-table metaclass, the          *)
(* model-bound table constructor and the pagination mixin.                 *)
(*                                                                         *)
(* Three independent mechanisms are modelled, each with a specification    *)
(* of its own over the shared variable tuple:                              *)
(*   SpecPaging / SpecPagingLive  PaginationMixin on one table instance    *)
(*   SpecClass                    ModelTableMetaclass.__new__              *)
(*   SpecConstruct                ModelTable.__init__ from request threads *)
(***************************************************************************)
EXTENDS Integers, Sequences, FiniteSets, TLC

VARIABLES
    \* ---- PaginationMixin, one table instance
    data,              \* the underlying dataset get_paginator_data() returns
    page,              \* self.page, the page token
    show_all_url,      \* self.show_all_url
    PAGINATION_COUNT,  \* self.PAGINATION_COUNT, a token as configured
    _paginator,        \* self._paginator, NoPaginator for None
    built,             \* number of Paginator constructions so far
    last,              \* the last call on the instance and what it returned
    \* ---- ModelTableMetaclass.__new__
    decl,              \* the class statement: name, bases, attrs, Meta
    klass,             \* the class the metaclass produced (or the error)
    \* ---- ModelTable.__init__
    table,             \* the table class: options and class-level registries
    pc,                \* per request thread: position in __init__
    self_              \* per request thread: the instance under construction

vars == << data, page, show_all_url, PAGINATION_COUNT, _paginator, built, last,
           decl, klass, table, pc, self_ >>

pagingVars == << data, page, show_all_url, PAGINATION_COUNT, _paginator, built, last >>
classVars == << decl, klass >>
constructVars == << table, pc, self_ >>

(***************************************************************************)
(* Bounds                                                                  *)
(***************************************************************************)
MaxRecords == 5
MaxPageToken == 4

(***************************************************************************)
(* Generic helpers                                                         *)
(***************************************************************************)
Range(s) == { s[i] : i \in 1..Len(s) }

Max(a, b) == IF a >= b THEN a ELSE b

Slice(s, bottom, top) ==
    \* Python s[bottom:top] for 0 <= bottom, 0 <= top
    LET hi == IF top > Len(s) THEN Len(s) ELSE top
    IN  IF bottom >= hi THEN << >> ELSE [ i \in 1..(hi - bottom) |-> s[bottom + i] ]

(***************************************************************************)
(* Page tokens are strings; a string is a sequence of one-character        *)
(* strings, so that parsing is computed and not assumed.                   *)
(***************************************************************************)
DigitChars == << "0", "1", "2", "3", "4", "5", "6", "7", "8", "9" >>

IsDigit(c) == c \in Range(DigitChars)

DigitVal(c) == CHOOSE d \in 0..9 : DigitChars[d + 1] = c

RECURSIVE DigitsValue(_)
DigitsValue(s) ==
    IF s = << >> THEN 0
    ELSE DigitsValue(SubSeq(s, 1, Len(s) - 1)) * 10 + DigitVal(s[Len(s)])

\* Python int(str): an optional sign, then one or more decimal digits;
\* anything else raises ValueError (ok = FALSE).
int(s) ==
    LET signed == s # << >> /\ Head(s) \in { "-", "+" }
        body   == IF signed THEN Tail(s) ELSE s
    IN  IF body = << >> \/ \E i \in 1..Len(body) : ~IsDigit(body[i])
        THEN [ ok |-> FALSE, val |-> 0 ]
        ELSE [ ok |-> TRUE,
               val |-> IF signed /\ Head(s) = "-" THEN 0 - DigitsValue(body)
                       ELSE DigitsValue(body) ]

\* Python str(int) for n >= 0, used to write tokens down
RECURSIVE Decimal(_)
Decimal(n) ==
    IF n < 10 THEN << DigitChars[n + 1] >>
    ELSE Decimal(n \div 10) \o << DigitChars[(n % 10) + 1] >>

ALL == << "a", "l", "l" >>

EmptyToken == << >>

Tokens ==
    { Decimal(k) : k \in 0..MaxPageToken }
        \cup { Decimal(99), << "-", "1" >>, ALL, << "a", "b", "c" >>, EmptyToken }

(***************************************************************************)
(* django.core.paginator.Paginator as PaginationMixin uses it              *)
(* (orphans = 0, allow_empty_first_page = True)                            *)
(***************************************************************************)
NoPaginator == [ id |-> 0, object_list |-> << >>, per_page |-> 0 ]

Paginator(id, object_list, per_page) ==
    [ id |-> id, object_list |-> object_list, per_page |-> int(per_page).val ]

count(p) == Len(p.object_list)

num_pages(p) ==
    LET hits == Max(1, count(p))
    IN  (hits + p.per_page - 1) \div p.per_page

\* Paginator.validate_number
validate_number(p, number) ==
    LET n == int(number)
    IN  IF ~n.ok THEN [ error |-> "PageNotAnInteger", number |-> 0 ]
        ELSE IF n.val < 1 THEN [ error |-> "EmptyPage", number |-> 0 ]
        ELSE IF n.val > num_pages(p) /\ ~(n.val = 1)
             THEN [ error |-> "EmptyPage", number |-> 0 ]
        ELSE [ error |-> "none", number |-> n.val ]

\* Paginator.page for a validated number: the Page object
PageOf(p, number) ==
    LET bottom == (number - 1) * p.per_page
        top0   == bottom + p.per_page
        top    == IF top0 >= count(p) THEN count(p) ELSE top0
    IN  [ kind |-> "page", number |-> number,
          object_list |-> Slice(p.object_list, bottom, top), flag |-> FALSE ]

(***************************************************************************)
(* PaginationMixin                                                         *)
(***************************************************************************)
NoResult == [ kind |-> "none", number |-> 0, object_list |-> << >>, flag |-> FALSE ]

BoolResult(b) == [ kind |-> "bool", number |-> 0, object_list |-> << >>, flag |-> b ]

IntResult(n) == [ kind |-> "int", number |-> n, object_list |-> << >>, flag |-> FALSE ]

AllResult(objects) ==
    [ kind |-> "all", number |-> 0, object_list |-> objects, flag |-> FALSE ]

Call(op, arg, error, result) ==
    [ op |-> op, arg |-> arg, error |-> error, result |-> result ]

get_paginator_data == data

\* property get_page: int(self.page), None (ok = FALSE) when it does not parse
get_page(pg) == int(pg)

\* a paginator property that forgets its cache
paginator_uncached == Paginator(built + 1, get_paginator_data, PAGINATION_COUNT)

\* property paginator: the cached instance, built on first access
paginator ==
    IF _paginator.id = 0
    THEN Paginator(built + 1, get_paginator_data, PAGINATION_COUNT)
    ELSE _paginator

AccessEffect ==
    /\ _paginator' = paginator
    /\ built' = IF paginator.id = _paginator.id THEN built ELSE built + 1

previous_page_number(pg) ==
    IF get_page(pg).ok THEN IntResult(get_page(pg).val - 1) ELSE NoResult

next_page_number(pg) ==
    IF get_page(pg).ok THEN IntResult(get_page(pg).val + 1) ELSE NoResult

has_previous(pg) ==
    IF get_page(pg).ok THEN get_page(pg).val # 1 ELSE FALSE

\* has_next comparing with >= instead of >
has_next_off_by_one(pg, p) ==
    IF get_page(pg).ok THEN ~((get_page(pg).val + 1) >= num_pages(p)) ELSE FALSE

has_next(pg, p) ==
    IF get_page(pg).ok THEN ~((get_page(pg).val + 1) > num_pages(p)) ELSE FALSE

\* get_page_data falling back to the first page on EmptyPage
PageData_first_on_empty(pg, p) ==
    IF pg # ALL
    THEN LET v == validate_number(p, pg)
         IN  IF v.error = "none" THEN [ error |-> "none", result |-> PageOf(p, v.number) ]
             ELSE IF v.error = "EmptyPage"
                  THEN [ error |-> "none", result |-> PageOf(p, 1) ]
             ELSE [ error |-> v.error, result |-> NoResult ]
    ELSE IF show_all_url
         THEN [ error |-> "none", result |-> AllResult(get_paginator_data) ]
         ELSE [ error |-> "UnboundLocalError", result |-> NoResult ]

\* get_page_data's result for the page token now stored and paginator p
PageData(pg, p) ==
    IF pg # ALL
    THEN LET v == validate_number(p, pg)
         IN  IF v.error = "none" THEN [ error |-> "none", result |-> PageOf(p, v.number) ]
             ELSE IF v.error = "EmptyPage"
                  THEN [ error |-> "none", result |-> PageOf(p, num_pages(p)) ]
             ELSE [ error |-> v.error, result |-> NoResult ]
    ELSE IF show_all_url
         THEN [ error |-> "none", result |-> AllResult(get_paginator_data) ]
         ELSE [ error |-> "UnboundLocalError", result |-> NoResult ]

GetPageData(token) ==
    LET p   == paginator
        pg  == IF token # EmptyToken THEN token ELSE page
        out == PageData(pg, p)
    IN  /\ AccessEffect
        /\ page' = pg
        /\ last' = Call("get_page_data", token, out.error, out.result)
        /\ UNCHANGED << data, show_all_url, PAGINATION_COUNT >>
        /\ UNCHANGED << classVars, constructVars >>

AccessPaginator ==
    /\ AccessEffect
    /\ last' = Call("paginator", EmptyToken, "none", NoResult)
    /\ UNCHANGED << data, page, show_all_url, PAGINATION_COUNT >>
    /\ UNCHANGED << classVars, constructVars >>

HasNext ==
    /\ IF get_page(page).ok THEN AccessEffect ELSE UNCHANGED << _paginator, built >>
    /\ last' = Call("has_next", EmptyToken, "none", BoolResult(has_next(page, paginator)))
    /\ UNCHANGED << data, page, show_all_url, PAGINATION_COUNT >>
    /\ UNCHANGED << classVars, constructVars >>

HasPrevious ==
    /\ last' = Call("has_previous", EmptyToken, "none", BoolResult(has_previous(page)))
    /\ UNCHANGED << data, page, show_all_url, PAGINATION_COUNT, _paginator, built >>
    /\ UNCHANGED << classVars, constructVars >>

PreviousPageNumber ==
    /\ last' = Call("previous_page_number", EmptyToken, "none", previous_page_number(page))
    /\ UNCHANGED << data, page, show_all_url, PAGINATION_COUNT, _paginator, built >>
    /\ UNCHANGED << classVars, constructVars >>

NextPageNumber ==
    /\ last' = Call("next_page_number", EmptyToken, "none", next_page_number(page))
    /\ UNCHANGED << data, page, show_all_url, PAGINATION_COUNT, _paginator, built >>
    /\ UNCHANGED << classVars, constructVars >>

HasMoreData ==
    /\ last' = Call("has_more_data", EmptyToken, "none", BoolResult(FALSE))
    /\ UNCHANGED << data, page, show_all_url, PAGINATION_COUNT, _paginator, built >>
    /\ UNCHANGED << classVars, constructVars >>

\* The environment: records are added to or removed from the dataset
Records(n) == [ i \in 1..n |-> i ]

ChangeData ==
    /\ \E n \in 0..MaxRecords : n # Len(data) /\ data' = Records(n)
    /\ UNCHANGED << page, show_all_url, PAGINATION_COUNT, _paginator, built, last >>
    /\ UNCHANGED << classVars, constructVars >>

(***************************************************************************)
(* ModelTableMetaclass.__new__                                             *)
(*                                                                         *)
(* A SortedDict is the sequence of its items in key order; a column is a   *)
(* record whose owner is the class that declared it.                       *)
(***************************************************************************)
MaxDeclared == 2

Item(key, value) == [ key |-> key, value |-> value ]

Keys(items) == [ i \in 1..Len(items) |-> items[i].key ]

\* list.index(x): the position of the first occurrence
Index(s, x) == CHOOSE i \in 1..Len(s) : s[i] = x /\ \A j \in 1..(i - 1) : s[j] # x

\* SortedDict(items): a key keeps the place of its first occurrence and
\* the value of its last
SortedDict(items) ==
    LET firsts == SelectSeq([ i \in 1..Len(items) |-> i ],
                            LAMBDA i : \A j \in 1..(i - 1) : items[j].key # items[i].key)
        lastOf(k) == CHOOSE i \in 1..Len(items) :
                        items[i].key = k /\ \A j \in (i + 1)..Len(items) : items[j].key # k
    IN  [ n \in 1..Len(firsts) |->
            Item(items[firsts[n]].key, items[lastOf(items[firsts[n]].key)].value) ]

\* list.sort(key=...): stable, on items ranked by an integer
RECURSIVE SortByRank(_)
SortByRank(ranked) ==
    IF ranked = << >> THEN << >>
    ELSE LET least == CHOOSE i \in 1..Len(ranked) :
                          /\ \A j \in 1..Len(ranked) : ranked[i].rank <= ranked[j].rank
                          /\ \A j \in 1..(i - 1) : ranked[j].rank # ranked[i].rank
             rest  == [ j \in 1..(Len(ranked) - 1) |->
                          IF j < least THEN ranked[j] ELSE ranked[j + 1] ]
         IN  << ranked[least] >> \o SortByRank(rest)

Ranked(items, ranks) == [ i \in 1..Len(items) |-> [ rank |-> ranks[i], item |-> items[i] ] ]

Unranked(ranked) == [ i \in 1..Len(ranked) |-> ranked[i].item ]

\* a set listed in some order (dict.items(), list(set(...)))
Orderings(S) ==
    { s \in [ 1..Cardinality(S) -> S ] : \A i, j \in 1..Cardinality(S) : s[i] = s[j] => i = j }

Column(name, owner, auto, classes) ==
    [ name |-> name, owner |-> owner, auto |-> auto, classes |-> classes, filters |-> << >> ]

NoAttr == << [ key |-> "", value |-> Column("", "", "no base_columns", << >>) ] >>

hasattr_base_columns(base) == base.base_columns # NoAttr

\* the Column attributes of the class body, in the order attrs.items() gives
\* them, named and tagged, then sorted by creation_counter
GatherColumns(d, listed) ==
    LET cols   == SelectSeq(listed, LAMBDA a : a.type = "Column")
        tagged == [ i \in 1..Len(cols) |->
                      [ creation_counter |-> cols[i].creation_counter,
                        key   |-> cols[i].key,
                        value |-> Column(cols[i].key, d.name, "", << "normal_column" >>) ] ]
        sorted == Unranked(SortByRank(Ranked(tagged, [ i \in 1..Len(tagged) |-> tagged[i].creation_counter ])))
    IN  [ i \in 1..Len(sorted) |-> Item(sorted[i].key, sorted[i].value) ]

\* for base in bases[::-1]: columns = base.base_columns.items() + columns
RECURSIVE InheritColumns(_, _)
InheritColumns(bases, columns) ==
    IF bases = << >> THEN columns
    ELSE LET base == bases[Len(bases)]
             rest == SubSeq(bases, 1, Len(bases) - 1)
         IN  InheritColumns(rest,
                 IF hasattr_base_columns(base) THEN base.base_columns \o columns
                 ELSE columns)

\* the limits compared with >= instead of >
ColumnLimitError_off_by_one(opts, columns) ==
    \/ opts.browser_table = "navigation" /\ Len(columns) >= 3
    \/ opts.browser_table = "content" /\ Len(columns) >= 2

ColumnLimitError(opts, columns) ==
    \/ opts.browser_table = "navigation" /\ Len(columns) > 3
    \/ opts.browser_table = "content" /\ Len(columns) > 2

\* the allow-list filtering without the re-ordering
ExplicitColumns_unsorted(opts, columns) ==
    IF opts.columns # << >>
    THEN SelectSeq(columns, LAMBDA c : c.key \in Range(opts.columns))
    ELSE columns

\* if opts.columns: drop the columns not named, then sort by the index
ExplicitColumns(opts, columns) ==
    IF opts.columns # << >>
    THEN LET kept == SelectSeq(columns, LAMBDA c : c.key \in Range(opts.columns))
         IN  Unranked(SortByRank(Ranked(kept, [ i \in 1..Len(kept) |-> Index(opts.columns, kept[i].key) ])))
    ELSE columns

WithMultiSelect(opts, columns, owner) ==
    IF opts.multi_select /\ opts.browser_table # "navigation"
    THEN << Item("multi_select",
                 Column("multi_select", owner, "multi_select", << "multi_select_column" >>)) >>
         \o columns
    ELSE columns

WithActionsColumn(opts, columns, owner) ==
    IF opts.actions_column
    THEN columns \o << Item("actions",
                            Column("actions", owner, "actions", << "actions_column" >>)) >>
    ELSE columns

\* alphabetical order of the action names in use
ActionNames == << "create", "delete", "edit", "filter" >>

NameRank(action) == Index(ActionNames, action.name)

NoAction == [ cls |-> "", name |-> "", instance |-> 0 ]

\* actions.sort(key=attrgetter('name')) on list(set(row) | set(table)), the
\* set listed in the order `listed`
SortedActions(listed) ==
    Unranked(SortByRank(Ranked(listed, [ i \in 1..Len(listed) |-> NameRank(listed[i]) ])))

\* [(action.name, action()) for action in actions]: the n-th call instantiates
Instantiate(actions) ==
    [ i \in 1..Len(actions) |->
        Item(actions[i].name, [ cls |-> actions[i].cls, name |-> actions[i].name, instance |-> i ]) ]

Lookup(items, key) == items[CHOOSE i \in 1..Len(items) : items[i].key = key].value

UndefinedClass ==
    [ status |-> "undefined", error |-> "", attrs |-> { }, base_columns |-> << >>,
      _columns |-> << >>, base_actions |-> << >>, instantiated |-> 0,
      _filter_action |-> NoAction ]

\* the class __new__ returns, or the error it raises
NewClass(d, attrsListed, actionsListed) ==
    LET opts     == d.Meta
        declared == GatherColumns(d, attrsListed)
        columns  == InheritColumns(d.bases, declared)
        explicit == ExplicitColumns(opts, columns)
        final    == WithActionsColumn(opts, WithMultiSelect(opts, explicit, d.name), d.name)
        actions  == SortedActions(actionsListed)
        made     == Instantiate(actions)
        actions_dict == SortedDict(made)
    IN  IF ColumnLimitError(opts, columns)
        THEN [ UndefinedClass EXCEPT !.status = "ValueError", !.error = d.name ]
        ELSE [ status         |-> "defined",
               error          |-> "",
               attrs          |-> { a.key : a \in { x \in d.attrs : x.type # "Column" } }
                                     \cup { "_meta", "base_columns", "_columns", "base_actions" },
               base_columns   |-> SortedDict(columns),
               _columns       |-> SortedDict(final),
               base_actions   |-> actions_dict,
               instantiated   |-> Len(made),
               _filter_action |-> IF opts._filter_action # NoAction
                                  THEN Lookup(actions_dict, opts._filter_action.name)
                                  ELSE NoAction ]

ModelTableMetaclass_new ==
    /\ klass.status = "undefined"
    /\ \E attrsListed \in Orderings(decl.attrs) :
       \E actionsListed \in Orderings(Range(decl.Meta.row_actions) \cup Range(decl.Meta.table_actions)) :
           klass' = NewClass(decl, attrsListed, actionsListed)
    /\ UNCHANGED << decl, pagingVars, constructVars >>

\* ---- the class statements explored
ColumnNames == { "a", "c", "d" }

DistinctSeqs(S, n) ==
    { s \in UNION { [ 1..k -> S ] : k \in 0..n } : \A i, j \in 1..Len(s) : s[i] = s[j] => i = j }

BaseColumnsOf(owner, names) ==
    [ i \in 1..Len(names) |->
        Item(names[i], Column(names[i], owner, "", << "normal_column" >>)) ]

DeleteAction == [ cls |-> "DeleteAction", name |-> "delete", instance |-> 0 ]
BatchDelete == [ cls |-> "BatchDelete", name |-> "delete", instance |-> 0 ]
EditAction == [ cls |-> "EditAction", name |-> "edit", instance |-> 0 ]
NameFilter == [ cls |-> "NameFilter", name |-> "filter", instance |-> 0 ]

ActionDeclarations ==
    { [ row |-> << >>, table |-> << >>, filter |-> NoAction ],
      [ row |-> << EditAction, DeleteAction >>, table |-> << DeleteAction, NameFilter >>,
        filter |-> NameFilter ],
      [ row |-> << DeleteAction >>, table |-> << BatchDelete >>, filter |-> NoAction ] }

\* Meta.columns; the empty list stands for None and () alike (both falsy)
AllowLists == { << >>, << "d", "c", "zz", "a" >> }

BaseLists ==
    { << >>,
      << [ name |-> "BaseAB", base_columns |-> BaseColumnsOf("BaseAB", << "a", "b" >>) ] >>,
      << [ name |-> "BaseAB", base_columns |-> BaseColumnsOf("BaseAB", << "a", "b" >>) ],
         [ name |-> "BaseC", base_columns |-> BaseColumnsOf("BaseC", << "c" >>) ] >>,
      << [ name |-> "BaseC", base_columns |-> BaseColumnsOf("BaseC", << "c" >>) ],
         [ name |-> "PaginationMixin", base_columns |-> NoAttr ],
         [ name |-> "BaseAB", base_columns |-> BaseColumnsOf("BaseAB", << "a", "b" >>) ] >> }

ClassBody(declared) ==
    { [ key |-> declared[i], type |-> "Column", creation_counter |-> i ] : i \in 1..Len(declared) }
        \cup { [ key |-> "Meta", type |-> "classobj", creation_counter |-> 0 ] }

Declarations ==
    { [ name  |-> "MyTable",
        bases |-> bases,
        attrs |-> ClassBody(declared),
        Meta  |-> [ browser_table  |-> browser,
                    columns        |-> allow,
                    multi_select   |-> ms,
                    actions_column |-> ac,
                    row_actions    |-> acts.row,
                    table_actions  |-> acts.table,
                    _filter_action |-> acts.filter ] ] :
      bases \in BaseLists,
      declared \in DistinctSeqs(ColumnNames, MaxDeclared),
      browser \in { "", "navigation", "content" },
      allow \in AllowLists,
      ms \in BOOLEAN, ac \in BOOLEAN,
      acts \in ActionDeclarations }

(***************************************************************************)
(* ModelTable.__init__, run by request threads on one table class          *)
(*                                                                         *)
(* self._columns is the class attribute the metaclass stored: __init__     *)
(* never rebinds it, so the instance and the class share one SortedDict.   *)
(* A step is one statement's access to that shared dictionary; a method    *)
(* call on it is atomic, except update, which sets one key per step.       *)
(***************************************************************************)
MaxRequests == 2

Requests == 1..MaxRequests

\* SortedDict.__setitem__: a new key goes last, a known key keeps its place
SetItem(items, key, value) ==
    IF \E i \in 1..Len(items) : items[i].key = key
    THEN [ i \in 1..Len(items) |-> IF items[i].key = key THEN Item(key, value) ELSE items[i] ]
    ELSE Append(items, Item(key, value))

\* SortedDict.update(dict_): __setitem__ for each item as dict_ lists them
RECURSIVE Update(_, _)
Update(items, listed) ==
    IF listed = << >> THEN items
    ELSE Update(SetItem(items, Head(listed).key, Head(listed).value), Tail(listed))

HasKey(items, key) == \E i \in 1..Len(items) : items[i].key = key

\* SortedDict.pop(key) for a key that is present: the dictionary left
Without(items, key) == SelectSeq(items, LAMBDA it : it.key # key)

\* DataTable.__init__: self.columns is a SortedDict of copies of the columns
\* of self._columns
CopyColumns(items) == [ i \in 1..Len(items) |-> Item(items[i].key, items[i].value) ]

\* fields_for_model(model, fields): the model's form fields, those of
\* `fields` only when it is given
fields_for_model(model, fields) ==
    IF fields = << >> THEN model.fields
    ELSE SelectSeq(model.fields, LAMBDA f : f \in Range(fields))

\* tables.Column(name, verbose_name=..., form_field=field[, filters=(filter_m2m,)])
ModelColumn(name, many) ==
    [ Column(name, "ModelTable.__init__", "", << >>) EXCEPT
        !.filters = IF name \in many THEN << "filter_m2m" >> ELSE << >> ]

\* a plain dict lists its items in hash order: the order this process
\* gives the keys
DictItems(items, hash_order) ==
    Unranked(SortByRank(Ranked(items, [ i \in 1..Len(items) |-> Index(hash_order, items[i].key) ])))

\* property _model_class: the model class, or the exception raised
\*   mcs: _meta.model_class; a string is resolved through get_class
model_class_property(t, inst) ==
    LET mcs      == t.meta_model_class
        resolved == mcs = "string" /\ t.registry_resolves
        has_attr == inst.model_class \/ resolved \/ t.attr_model_class
        mcls     == IF has_attr THEN "class" ELSE mcs
    IN  IF mcs = "string" /\ ~t.registry_resolves
        THEN [ error |-> "get_class error", model_class |-> inst.model_class ]
        ELSE IF mcls = "None"
        THEN [ error |-> "Exception: Missing model_class or override one of get_table_data, get_paginator_data",
               model_class |-> inst.model_class ]
        ELSE [ error |-> "", model_class |-> inst.model_class \/ resolved ]

\* hasattr(self, 'get_table_data') and callable(self.get_table_data):
\* ModelTable defines get_table_data, so every subclass has it
has_get_table_data == TRUE

NewInstance == [ columns |-> << >>, model_class |-> FALSE, dict |-> << >>, i |-> 0, error |-> "" ]

Fail(r, error) ==
    /\ pc' = [ pc EXCEPT ![r] = "failed" ]
    /\ self_' = [ self_ EXCEPT ![r].error = error ]

\* line 126: the first DataTable.__init__
SuperInit(r) ==
    /\ pc[r] = "start"
    /\ self_' = [ self_ EXCEPT ![r].columns = CopyColumns(table._columns) ]
    /\ pc' = [ pc EXCEPT ![r] = "fields" ]
    /\ UNCHANGED << table, pagingVars, classVars >>

\* lines 133-149: the model's fields become columns of a local dict
MakeColumns(r) ==
    /\ pc[r] = "fields"
    /\ LET got == model_class_property(table, self_[r])
       IN  IF got.error # ""
           THEN Fail(r, got.error)
           ELSE LET fields == fields_for_model(table.model, table.meta_columns)
                    cols   == [ i \in 1..Len(fields) |->
                                  Item(fields[i], ModelColumn(fields[i], table.model.many)) ]
                IN  /\ self_' = [ self_ EXCEPT ![r].model_class = got.model_class,
                                               ![r].dict = DictItems(cols, table.hash_order) ]
                    /\ pc' = [ pc EXCEPT ![r] = "pop" ]
    /\ UNCHANGED << table, pagingVars, classVars >>

\* lines 151-152: actions = self._columns.pop("actions"); columns["actions"] = actions
PopActions(r) ==
    /\ pc[r] = "pop"
    /\ IF HasKey(table._columns, "actions")
       THEN /\ table' = [ table EXCEPT !._columns = Without(table._columns, "actions") ]
            /\ self_' = [ self_ EXCEPT
                            ![r].dict = DictItems(Append(self_[r].dict,
                                                         Item("actions", Lookup(table._columns, "actions"))),
                                                  table.hash_order),
                            ![r].i = 1 ]
            /\ pc' = [ pc EXCEPT ![r] = "update" ]
       ELSE /\ Fail(r, "KeyError")
            /\ UNCHANGED table
    /\ UNCHANGED << pagingVars, classVars >>

\* line 153: self._columns.update(columns), one key
UpdateClassColumns(r) ==
    /\ pc[r] = "update"
    /\ self_[r].i <= Len(self_[r].dict)
    /\ LET it == self_[r].dict[self_[r].i]
       IN  table' = [ table EXCEPT !._columns = SetItem(table._columns, it.key, it.value) ]
    /\ self_' = [ self_ EXCEPT ![r].i = self_[r].i + 1 ]
    /\ UNCHANGED << pc, pagingVars, classVars >>

\* lines 154-155: self.columns.update(columns)
UpdateOwnColumns(r) ==
    /\ pc[r] = "update"
    /\ self_[r].i > Len(self_[r].dict)
    /\ self_' = [ self_ EXCEPT ![r].columns = Update(self_[r].columns, self_[r].dict) ]
    /\ pc' = [ pc EXCEPT ![r] = "reinit" ]
    /\ UNCHANGED << table, pagingVars, classVars >>

\* line 157: the second DataTable.__init__
SuperInitAgain(r) ==
    /\ pc[r] = "reinit"
    /\ self_' = [ self_ EXCEPT ![r].columns = CopyColumns(table._columns) ]
    /\ pc' = [ pc EXCEPT ![r] = "check" ]
    /\ UNCHANGED << table, pagingVars, classVars >>

\* lines 163-170
CheckDataSource(r) ==
    /\ pc[r] = "check"
    /\ IF ~has_get_table_data /\ ~(self_[r].model_class \/ table.attr_model_class)
       THEN Fail(r, "NotImplementedError")
       ELSE /\ pc' = [ pc EXCEPT ![r] = "done" ]
            /\ UNCHANGED self_
    /\ UNCHANGED << table, pagingVars, classVars >>

\* ---- the table classes and models explored
Article == [ fields |-> << "title", "tags" >>, many |-> { "tags" } ]

Token == [ fields |-> << >>, many |-> { } ]

Models == { Article, Token }

\* how the table names its model: Meta.model_class (a class or a content
\* type string), a model_class attribute of the table class, or nothing
ModelReferences ==
    { [ meta_model_class |-> "None", attr_model_class |-> FALSE, registry_resolves |-> TRUE ],
      [ meta_model_class |-> "None", attr_model_class |-> TRUE, registry_resolves |-> TRUE ],
      [ meta_model_class |-> "class", attr_model_class |-> FALSE, registry_resolves |-> TRUE ],
      [ meta_model_class |-> "string", attr_model_class |-> FALSE, registry_resolves |-> TRUE ],
      [ meta_model_class |-> "string", attr_model_class |-> FALSE, registry_resolves |-> FALSE ] }

TableDeclaration(declared, allow, ac) ==
    [ name  |-> "MyTable",
      bases |-> << >>,
      attrs |-> ClassBody(declared),
      Meta  |-> [ browser_table |-> "", columns |-> allow, multi_select |-> TRUE,
                  actions_column |-> ac, row_actions |-> << >>, table_actions |-> << >>,
                  _filter_action |-> NoAction ] ]

\* the class ModelTableMetaclass made of a declaration without actions
DefinedTable(d) == NewClass(d, CHOOSE o \in Orderings(d.attrs) : TRUE, << >>)

TableClasses ==
    { [ meta_model_class  |-> ref.meta_model_class,
        attr_model_class  |-> ref.attr_model_class,
        registry_resolves |-> ref.registry_resolves,
        overrides_get_table_data |-> override,
        meta_columns      |-> allow,
        model             |-> model,
        hash_order        |-> order,
        defined           |-> DefinedTable(TableDeclaration(declared, allow, ac)),
        _columns          |-> DefinedTable(TableDeclaration(declared, allow, ac))._columns ] :
      ref \in ModelReferences,
      override \in BOOLEAN,
      allow \in { << >>, << "tags" >> },
      model \in Models,
      order \in Orderings({ "title", "tags", "actions" }),
      declared \in { << >>, << "title" >> },
      ac \in BOOLEAN }

(***************************************************************************)
(* Specifications                                                          *)
(***************************************************************************)
DefaultPaginationCount == << "2", "5" >>

\* settings.PAGINATION_COUNT where the deployment sets it
PaginationSettings == { << "2" >> }

NoCall == Call("", EmptyToken, "none", NoResult)

IdleDecl ==
    [ name |-> "", bases |-> << >>, attrs |-> { },
      Meta |-> [ browser_table |-> "", columns |-> << >>, multi_select |-> FALSE,
                 actions_column |-> FALSE, row_actions |-> << >>, table_actions |-> << >>,
                 _filter_action |-> NoAction ] ]

PagingIdle ==
    /\ data = << >>
    /\ page = << "1" >>
    /\ show_all_url = TRUE
    /\ PAGINATION_COUNT = DefaultPaginationCount
    /\ _paginator = NoPaginator
    /\ built = 0
    /\ last = NoCall

ClassIdle ==
    /\ decl = IdleDecl
    /\ klass = UndefinedClass

ConstructIdle ==
    /\ table = << >>
    /\ pc = << >>
    /\ self_ = << >>

\* a paginated table instance after PaginatedTable.__init__
InitPaging ==
    /\ data \in { Records(n) : n \in 0..MaxRecords }
    /\ page = << "1" >>
    /\ show_all_url \in BOOLEAN
    /\ PAGINATION_COUNT \in { DefaultPaginationCount } \cup PaginationSettings
    /\ _paginator = NoPaginator
    /\ built = 0
    /\ last = NoCall
    /\ ClassIdle
    /\ ConstructIdle

NextPaging ==
    \/ \E token \in Tokens : GetPageData(token)
    \/ AccessPaginator
    \/ HasNext
    \/ HasPrevious
    \/ PreviousPageNumber
    \/ NextPageNumber
    \/ HasMoreData

SpecPaging == InitPaging /\ [][NextPaging]_vars

NextPagingLive ==
    \/ NextPaging
    \/ ChangeData

SpecPagingLive == InitPaging /\ [][NextPagingLive]_vars

\* a class statement about to be executed
InitClass ==
    /\ decl \in Declarations
    /\ klass = UndefinedClass
    /\ PagingIdle
    /\ ConstructIdle

NextClass == ModelTableMetaclass_new

SpecClass == InitClass /\ [][NextClass]_vars

\* a table class after its class statement, and requests about to build
\* instances of it
InitConstruct ==
    /\ table \in TableClasses
    /\ pc = [ r \in Requests |-> "start" ]
    /\ self_ = [ r \in Requests |-> NewInstance ]
    /\ PagingIdle
    /\ ClassIdle

NextConstruct ==
    \E r \in Requests :
        \/ SuperInit(r)
        \/ MakeColumns(r)
        \/ PopActions(r)
        \/ UpdateClassColumns(r)
        \/ UpdateOwnColumns(r)
        \/ SuperInitAgain(r)
        \/ CheckDataSource(r)

SpecConstruct == InitConstruct /\ [][NextConstruct]_vars

(***************************************************************************)
(* Claims about PaginationMixin                                            *)
(***************************************************************************)
\* the dataset's size, the page size and the number of pages, written
\* from the configuration and not from the Paginator
N == Len(data)

S == CHOOSE n \in 1..99 : Decimal(n) = PAGINATION_COUNT

P == CHOOSE p \in 1..(N + 1) : p * S >= N /\ (p = 1 \/ (p - 1) * S < N)

Least(a, b) == IF a <= b THEN a ELSE b

\* records (k-1)*S+1 .. min(k*S, N)
Window(k) == SubSeq(data, (k - 1) * S + 1, Least(k * S, N))

\* the token is not the text of an integer (digits, possibly signed)
NotNumeric(token) ==
    \/ token \in { << >>, << "-" >>, << "+" >> }
    \/ \E i \in 1..Len(token) :
           token[i] \notin Range(DigitChars) /\ ~(i = 1 /\ token[i] \in { "-", "+" })

\* C1: get_page_data(token) returns the whole dataset for "all" with
\* show-all enabled, the k-th window of S records for an integer token k in
\* 1..P, and the last page's content, without error, for an integer k > P.
C1_GetPageDataContract ==
    last.op = "get_page_data" =>
        /\ (last.arg = ALL /\ show_all_url) =>
               /\ last.error = "none"
               /\ last.result.kind = "all"
               /\ last.result.object_list = data
        /\ \A k \in 1..99 :
               last.arg = Decimal(k) =>
                   /\ last.error = "none"
                   /\ last.result.kind = "page"
                   /\ last.result.object_list = IF k <= P THEN Window(k) ELSE Window(P)

\* a request beyond the last of several pages was answered with the last page
C1_Witness ==
    /\ last.op = "get_page_data"
    /\ last.arg = Decimal(99)
    /\ P = 3
    /\ last.result.object_list = << 5 >>

\* C2: with the page token an index k in 1..P, has_previous() is k > 1,
\* has_next() is k < P, previous_page_number() is k - 1 and
\* next_page_number() is k + 1; with a token that is no integer the numbers
\* are None and both flags are false; no helper raises.
C2_NavigationHelpers ==
    /\ last.op \in { "has_previous", "has_next", "previous_page_number", "next_page_number" }
           => last.error = "none"
    /\ \A k \in 1..P :
           page = Decimal(k) =>
               /\ last.op = "has_previous" => last.result = BoolResult(k > 1)
               /\ last.op = "has_next" => last.result = BoolResult(k < P)
               /\ last.op = "previous_page_number" => last.result = IntResult(k - 1)
               /\ last.op = "next_page_number" => last.result = IntResult(k + 1)
    /\ NotNumeric(page) =>
           /\ last.op = "has_previous" => last.result = BoolResult(FALSE)
           /\ last.op = "has_next" => last.result = BoolResult(FALSE)
           /\ last.op = "previous_page_number" => last.result = NoResult
           /\ last.op = "next_page_number" => last.result = NoResult

\* has_next() answered true on the second of three pages
C2_Witness ==
    /\ last.op = "has_next"
    /\ page = Decimal(2)
    /\ P = 3
    /\ last.result = BoolResult(TRUE)

\* C9: the paginator is constructed at most once, on first access, from the
\* data and page size seen then; every later step keeps that instance,
\* whatever is called and however the data changes.
C9_PaginatorBuiltOnce ==
    [][ /\ built' <= 1
        /\ _paginator.id # 0 => (_paginator' = _paginator /\ built' = built)
        /\ (_paginator.id = 0 /\ _paginator'.id # 0) =>
               /\ built' = 1
               /\ _paginator'.object_list = data
               /\ _paginator'.per_page = S ]_vars

\* page data was fetched after the dataset had changed under a built pager
C9_Witness ==
    /\ last.op = "get_page_data"
    /\ built = 1
    /\ _paginator.id # 0
    /\ _paginator.object_list # data

\* C10: after get_page_data(token) with an integer token has returned page
\* j, the helpers describe page j: has_previous() is j > 1, has_next() is
\* j < P, and a true flag comes with the neighbouring index j - 1 or j + 1,
\* a valid page.
C10_HelpersDescribeReturnedPage ==
    (last.op = "get_page_data" /\ last.error = "none" /\ last.result.kind = "page") =>
        LET j == last.result.number
        IN  /\ has_previous(page) = (j > 1)
            /\ has_next(page, _paginator) = (j < P)
            /\ has_previous(page) =>
                   /\ previous_page_number(page) = IntResult(j - 1)
                   /\ j - 1 \in 1..P
            /\ has_next(page, _paginator) =>
                   /\ next_page_number(page) = IntResult(j + 1)
                   /\ j + 1 \in 1..P

(***************************************************************************)
(* Claims about ModelTableMetaclass.__new__                                *)
(***************************************************************************)
DeclaredColumnAttrs == { a \in decl.attrs : a.type = "Column" }

\* the declared column names in declaration order
DeclaredNames ==
    [ i \in 1..Cardinality(DeclaredColumnAttrs) |->
        (CHOOSE a \in DeclaredColumnAttrs : a.creation_counter = i).key ]

\* the inherited column names, first base first
RECURSIVE InheritedNamesOf(_)
InheritedNamesOf(bases) ==
    IF bases = << >> THEN << >>
    ELSE (IF Head(bases).base_columns = NoAttr THEN << >> ELSE Keys(Head(bases).base_columns))
         \o InheritedNamesOf(Tail(bases))

\* inherited plus declared, before filtering and auto-columns
CollectedNames == InheritedNamesOf(decl.bases) \o DeclaredNames

\* every name once, at the place it is first listed
FirstListed(names) ==
    SelectSeq([ i \in 1..Len(names) |-> IF \E j \in 1..(i - 1) : names[j] = names[i]
                                        THEN "" ELSE names[i] ],
              LAMBDA n : n # "")

AllowList == decl.Meta.columns

\* the data columns: all collected ones, or those the allow-list names, in
\* the allow-list's order
DataColumnNames ==
    IF AllowList = << >> THEN FirstListed(CollectedNames)
    ELSE SelectSeq(AllowList, LAMBDA n : n \in Range(CollectedNames))

\* C7: base_columns lists the columns in declaration order, inherited ones
\* first; _columns is [multi_select unless disabled or in a navigation
\* browser], the data columns (all, or the allow-list's in its order), then
\* [actions if enabled].
C7_ColumnOrder ==
    klass.status = "defined" =>
        /\ Keys(klass.base_columns) = FirstListed(CollectedNames)
        /\ Keys(klass._columns) =
              (IF decl.Meta.multi_select /\ decl.Meta.browser_table # "navigation"
               THEN << "multi_select" >> ELSE << >>)
              \o DataColumnNames
              \o (IF decl.Meta.actions_column THEN << "actions" >> ELSE << >>)

\* an allow-list reordered inherited and declared columns between the two
\* auto-columns
C7_Witness ==
    /\ klass.status = "defined"
    /\ CollectedNames = << "a", "b", "c", "d" >>
    /\ Keys(klass._columns) = << "multi_select", "d", "c", "a", "actions" >>

\* C8: the class statement fails, naming the class, exactly when the
\* collected columns number more than 3 in a "navigation" browser or more
\* than 2 in a "content" browser.
C8_ColumnLimit ==
    klass.status # "undefined" =>
        LET n    == Len(CollectedNames)
            over == \/ decl.Meta.browser_table = "navigation" /\ n > 3
                    \/ decl.Meta.browser_table = "content" /\ n > 2
        IN  IF over THEN klass.status = "ValueError" /\ klass.error = decl.name
            ELSE klass.status = "defined"

\* three columns were accepted in a navigation browser
C8_Witness ==
    /\ klass.status = "defined"
    /\ decl.Meta.browser_table = "navigation"
    /\ Len(CollectedNames) = 3

DeclaredActions == Range(decl.Meta.row_actions) \cup Range(decl.Meta.table_actions)

DeclaredActionNames == { a.name : a \in DeclaredActions }

\* C6: base_actions holds one entry per distinct action name, in
\* alphabetical order, and as many actions were instantiated as there are
\* distinct names.
C6_ActionsOncePerName ==
    klass.status = "defined" =>
        /\ Range(Keys(klass.base_actions)) = DeclaredActionNames
        /\ Len(klass.base_actions) = Cardinality(DeclaredActionNames)
        /\ \A i, j \in 1..Len(klass.base_actions) :
               i < j => Index(ActionNames, klass.base_actions[i].key)
                            < Index(ActionNames, klass.base_actions[j].key)
        /\ klass.instantiated = Cardinality(DeclaredActionNames)

(***************************************************************************)
(* Claims about ModelTable.__init__                                        *)
(***************************************************************************)
\* the table names a model that can be resolved
HasModelReference ==
    \/ table.meta_model_class = "class"
    \/ table.meta_model_class = "string" /\ table.registry_resolves
    \/ table.attr_model_class

Finished(r) == pc[r] \in { "done", "failed" }

\* C3: constructing an instance fails if and only if the table has neither
\* a resolvable model reference nor a data-fetch override of its own.
C3_FailsIffNoModelAndNoOverride ==
    \A r \in Requests :
        Finished(r) =>
            (pc[r] = "failed" <=> (~HasModelReference /\ ~table.overrides_get_table_data))

\* C4: constructing instances leaves the class-level registries as the
\* class statement made them, and no construction fails on the registry
\* because of another one.
C4_ClassRegistriesReadOnly ==
    /\ table._columns = table.defined._columns
    /\ \A r \in Requests :
           (pc[r] = "failed" /\ self_[r].error = "KeyError")
               => ~HasKey(table.defined._columns, "actions")

\* C5: in every constructed instance of a model-bound table the "actions"
\* column is the last column, after every model-derived column.
C5_ActionsColumnLast ==
    \A r \in Requests :
        pc[r] = "done" =>
            /\ self_[r].columns # << >>
            /\ self_[r].columns[Len(self_[r].columns)].key = "actions"

====
